---------------------------- MODULE Spec2Model ----------------------------
(***************************************************************************)
(* Relaxation circuit solver of esc_sim_test (src/sim.rs,                  *)
(* src/sim/components.rs).                                                 *)
(*                                                                         *)
(* Numbers.  The program computes in f64.  Here an f64 value is an         *)
(* integer number of grid units, one grid unit being EPSILON/16, or one    *)
(* of the three non-finite values NaN, PosInf, NegInf.  Every arithmetic   *)
(* operation rounds its result to the grid (to nearest, ties away from     *)
(* zero) and propagates the non-finite values as IEEE 754 does.  Device    *)
(* parameters (R, C, L), dt and the damping step are exact rationals.      *)
(***************************************************************************)
EXTENDS Integers, Sequences, FiniteSets, TLC

\* ------------------------------------------------------------------ bounds
MaxNets == 2
MaxComps == 2
MaxCalls == 1
MaxWrites == 1

\* --------------------------------------------------------------- constants
\* converged(): const EPSILON: f = 1e-12, in grid units.
EPSILON == 16
\* solve_state: for i in 0..1000
MAX_OUTER == 1000
\* solve_state: for _ in 0..10
MAX_INNER == 10
\* purturb_from_nets: FACTOR_R = 1.0, FACTOR_L = 0.0 (exact, so kept as integers)
FACTOR_R == 1
FACTOR_L == 0

\* ------------------------------------------------------------ f64 on a grid
PosInf == 1000000000
NegInf == -PosInf
NaN == PosInf + 1

IsNaN(x) == x = NaN
IsInf(x) == x = PosInf \/ x = NegInf
IsFinite(x) == ~IsNaN(x) /\ ~IsInf(x)

Abs(x) == IF x < 0 THEN -x ELSE x

\* a / b for b > 0, rounded to nearest, ties away from zero
RoundDiv(a, b) ==
    IF a >= 0 THEN (2 * a + b) \div (2 * b)
    ELSE -((2 * (-a) + b) \div (2 * b))

FNeg(x) == IF IsNaN(x) THEN NaN ELSE -x

FAdd(a, b) ==
    IF IsNaN(a) \/ IsNaN(b) THEN NaN
    ELSE IF IsInf(a) THEN (IF IsInf(b) /\ b # a THEN NaN ELSE a)
    ELSE IF IsInf(b) THEN b
    ELSE a + b

FSub(a, b) == FAdd(a, FNeg(b))

\* a * (num / den), the factor an exact rational with den > 0
FScale(a, num, den) ==
    IF IsNaN(a) THEN NaN
    ELSE IF IsInf(a) THEN (IF num = 0 THEN NaN ELSE IF num > 0 THEN a ELSE -a)
    ELSE RoundDiv(a * num, den)

\* a / k, the divisor an exact integer k >= 0 (k = 0 is +0.0)
FDiv(a, k) ==
    IF IsNaN(a) THEN NaN
    ELSE IF k = 0 THEN (IF a = 0 THEN NaN ELSE IF a > 0 THEN PosInf ELSE NegInf)
    ELSE IF IsInf(a) THEN a
    ELSE RoundDiv(a, k)

\* v.abs() <= e : false for NaN and for the infinities
FAbsLe(x, e) == IsFinite(x) /\ Abs(x) <= e

\* sim.rs: fn converged(prev, next)
converged(prev, next) == FAbsLe(FSub(prev, next), EPSILON)

\* sim.rs: Lerp::lerp(self, a, b) = a * (1 - self) + b * self, self an exact 0 or 1
lerp(self, a, b) == FAdd(FScale(a, 1 - self, 1), FScale(b, self, 1))

\* -------------------------------------------------------------- the state
VARIABLES
    components,  \* CircuitState.components: Seq of component states
    nets,        \* CircuitState.nets: Seq of NetState
    pc,          \* "idle", "voltages", "charges", "panicked"
    call,        \* the API call in progress or last returned, with its result
    i,           \* solve_state: outer round index
    conv,        \* solve_state: the local `converged`
    round,       \* what the last outer round did (passes, pass and charge verdicts)
    ncalls,      \* solve_state / tick calls issued so far
    nwrites,     \* external writes issued so far
    made         \* how many create_net / create_component calls returned

vars == <<components, nets, pc, call, i, conv, round, ncalls, nwrites, made>>

\* 0-based indexing as in the program
At(s, k) == s[k + 1]
Idx(s) == 0 .. (Len(s) - 1)

\* NetState::new_empty
NetNewEmpty ==
    [components |-> << >>,
     current |-> <<0, 0>>,
     current_sources |-> 0,
     voltage |-> 0,
     voltage_accumulator |-> 0,
     voltage_accumulator_sources |-> 0]

\* nothing recorded yet: no round of the present call has run
NoRound == [passes |-> 0, first_ok |-> TRUE, last_ok |-> TRUE, charge_ok |-> TRUE,
            flag |-> FALSE, charges |-> 0, rounds |-> 0, earlier_ok |-> FALSE]
NoCall == [op |-> "none", ret |-> -1]

\* CircuitState::new_empty
Init ==
    /\ components = << >>
    /\ nets = << >>
    /\ pc = "idle"
    /\ call = NoCall
    /\ i = 0
    /\ conv = TRUE
    /\ round = NoRound
    /\ ncalls = 0
    /\ nwrites = 0
    /\ made = [nets |-> 0, components |-> 0]


\* ------------------------------------------------------------ construction
\* CircuitState::create_net
create_net(ns) ==
    LET pushed == Append(ns, NetNewEmpty)
    IN [nets |-> pushed, ret |-> Len(pushed) - 1]

\* ComponentValue::n_terminals
n_terminals(value) == IF value.family = "MOSFET" THEN 3 ELSE 2

\* set_nets without its assert_eq!: only the indexing `connected_nets_i[i]` aborts,
\* when there are too few ids
set_nets_accepts_extra(value, ids) == Len(ids) < n_terminals(value)

\* LinearComponentState::set_nets / MOSFETComponentState::set_nets:
\* assert_eq!(connected_nets_i.len(), n) fails
set_nets_panics(value, ids) == Len(ids) # n_terminals(value)

\* LinearComponentState::new / MOSFETComponentState::new (after set_nets)
create(value, ids) ==
    IF value.family = "MOSFET"
    THEN [family |-> "MOSFET", connected_nets_i |-> ids, value |-> value,
          i |-> <<0, 0>>, v_gs_positive |-> 0, temperature |-> 295]
    ELSE [family |-> "Linear", connected_nets_i |-> ids, value |-> value,
          q |-> <<0, 0, 0>>, offset_emf |-> 0]

\* only terminal 0 is registered with its net
register_first_terminal_only(ns, component_i, ids, t) ==
    [ns EXCEPT ![At(ids, 0) + 1].components = Append(@, <<component_i, 0>>)]

\* create_component: for (terminal_i, net_i) in ids.enumerate() { nets[net_i].components.push(..) }
RECURSIVE register_terminals(_, _, _, _)
register_terminals(ns, component_i, ids, t) ==
    IF t >= Len(ids) THEN ns
    ELSE LET n == At(ids, t) + 1
         IN register_terminals(
                [ns EXCEPT ![n].components = Append(@, <<component_i, t>>)],
                component_i, ids, t + 1)

\* CircuitState::create_component; panic = an assert! aborted the call
create_component(cs, ns, value, ids) ==
    IF \E k \in 1 .. Len(ids) : ~(ids[k] < Len(ns))
    THEN [components |-> cs, nets |-> ns, panic |-> TRUE, ret |-> -1]
    ELSE IF set_nets_panics(value, ids)
    THEN [components |-> cs, nets |-> ns, panic |-> TRUE, ret |-> -1]
    ELSE [components |-> Append(cs, create(value, ids)),
          nets |-> register_terminals(ns, Len(cs), ids, 0),
          panic |-> FALSE,
          ret |-> Len(cs)]

\* ------------------------------------------------------------ net junction
\* NetState::apply_accumulated_voltage
apply_accumulated_voltage(net) ==
    IF net.voltage_accumulator_sources = 0 THEN [net |-> net, ok |-> TRUE]
    ELSE LET voltage_next == FDiv(net.voltage_accumulator, net.voltage_accumulator_sources)
         IN [net |-> [net EXCEPT !.voltage = voltage_next,
                                 !.voltage_accumulator = 0,
                                 !.voltage_accumulator_sources = 0],
             ok |-> converged(net.voltage, voltage_next)]

\* NetState::normalize_current
normalize_current(net) ==
    IF net.current_sources = 0 THEN net
    ELSE [net EXCEPT !.current = <<FDiv(@[1], net.current_sources),
                                   FDiv(@[2], net.current_sources)>>,
                     !.current_sources = 0]

\* sim.rs: fn converged_to_zero(v), EPSILON = 0.0
converged_to_zero(v) == FAbsLe(v, 0)

\* NetState::current_converged: `true || converged[0] && converged[1]`
current_converged(net) ==
    TRUE \/ (converged_to_zero(net.current[1]) /\ converged_to_zero(net.current[2]))

\* ------------------------------------------------------- linear components
\* net0.voltage_accumulator += amount; net0.voltage_accumulator_sources += 1
cast_vote(ns, n, amount) ==
    [ns EXCEPT ![n + 1].voltage_accumulator = FAdd(@, amount),
               ![n + 1].voltage_accumulator_sources = @ + 1]

\* the `match self.value` of impart_voltage_to_nets, without offset_emf
constitutive_voltage(c) ==
    CASE c.value.kind = "Capacitive" -> FDiv(FNeg(c.q[1]), c.value.x)
      [] c.value.kind = "Resistive" -> FScale(FNeg(c.q[2]), c.value.x, 1)
      [] c.value.kind = "Inductive" -> FScale(FNeg(c.q[3]), c.value.x, 1)
      [] c.value.kind = "Source" -> c.value.x
      [] OTHER -> 0

\* the open switch takes part like any other component
declines_never(c) == FALSE

\* `LinearComponentValue::Switch { closed: false } => return`, in both impart operations
declines(c) == c.value.kind = "Switch" /\ ~c.value.closed

\* v_target of impart_voltage_to_nets
v_target_of(c) == FAdd(c.offset_emf, constitutive_voltage(c))

\* voltage of terminal 1 minus voltage of terminal 0, as the nets hold them
v_across(c, ns) ==
    FSub(At(ns, c.connected_nets_i[2]).voltage, At(ns, c.connected_nets_i[1]).voltage)

StepDen == 256

\* LinearComponentState::impart_voltage_to_nets; step = s / StepDen
impart_voltage_to_nets(c, ns, s) ==
    IF declines(c) THEN ns
    ELSE LET v_diff == FScale(FScale(FSub(v_target_of(c), v_across(c, ns)), 1, 2), s, StepDen)
             n0 == c.connected_nets_i[1]
             n1 == c.connected_nets_i[2]
             ns0 == cast_vote(ns, n0, FSub(At(ns, n0).voltage, v_diff))
         IN cast_vote(ns0, n1, FAdd(At(ns0, n1).voltage, v_diff))

\* one `net.current[i] -= / += self.q[i + 1]; net.current_sources += 1`
add_current(ns, n, k, amount) ==
    [ns EXCEPT ![n + 1].current[k + 1] = FAdd(@, amount),
               ![n + 1].current_sources = @ + 1]

\* LinearComponentState::impart_currents_to_nets
impart_currents_to_nets(c, ns) ==
    IF declines(c) THEN ns
    ELSE LET n0 == c.connected_nets_i[1]
             n1 == c.connected_nets_i[2]
             a0 == add_current(ns, n0, 0, FNeg(c.q[2]))
             a1 == add_current(a0, n1, 0, c.q[2])
             b0 == add_current(a1, n0, 1, FNeg(c.q[3]))
         IN add_current(b0, n1, 1, c.q[3])

\* i_target[k] of purturb_from_nets
i_target(c, ns, k) ==
    FAdd(c.q[k + 2],
         FScale(FSub(At(ns, c.connected_nets_i[1]).current[k + 1],
                     At(ns, c.connected_nets_i[2]).current[k + 1]), 1, 2))

\* q_next[1] of the Resistive arm
resistive_current(c, ns) ==
    lerp(FACTOR_R, FDiv(FNeg(v_across(c, ns)), c.value.x), i_target(c, ns, 0))

\* q_next[2] of the Inductive arm
inductive_slope(c, ns) ==
    lerp(FACTOR_L, FDiv(FNeg(v_across(c, ns)), c.value.x), i_target(c, ns, 1))

\* the inductor's current follows the net imbalance as a capacitor's does
q_next_of_inductor_absorbs(c, ns) ==
    CASE c.value.kind \in {"Capacitive", "Source"} ->
            <<c.q[1], i_target(c, ns, 0), i_target(c, ns, 1)>>
      [] c.value.kind = "Resistive" ->
            <<c.q[1], resistive_current(c, ns), i_target(c, ns, 1)>>
      [] c.value.kind = "Inductive" ->
            <<c.q[1], i_target(c, ns, 0), inductive_slope(c, ns)>>
      [] OTHER ->
            IF c.value.closed
            THEN <<c.q[1], i_target(c, ns, 0), i_target(c, ns, 1)>>
            ELSE <<c.q[1], 0, 0>>

\* q_next of purturb_from_nets
q_next_of(c, ns) ==
    CASE c.value.kind \in {"Capacitive", "Source"} ->
            <<c.q[1], i_target(c, ns, 0), i_target(c, ns, 1)>>
      [] c.value.kind = "Resistive" ->
            <<c.q[1], resistive_current(c, ns), i_target(c, ns, 1)>>
      [] c.value.kind = "Inductive" ->
            <<c.q[1], c.q[2], inductive_slope(c, ns)>>
      [] OTHER ->
            IF c.value.closed
            THEN <<c.q[1], i_target(c, ns, 0), i_target(c, ns, 1)>>
            ELSE <<c.q[1], 0, 0>>

\* LinearComponentState::purturb_from_nets
purturb_from_nets(c, ns) ==
    LET q_next == q_next_of(c, ns)
    IN [component |-> [c EXCEPT !.q = q_next],
        ok |-> converged(c.q[2], q_next[2]) /\ converged(c.q[3], q_next[3])]

DtDen == 2

\* the two updates in the other order: Q advances with the current before the step
tick_component_q_first(c, dtn) ==
    LET q0 == FAdd(c.q[1], FScale(c.q[2], dtn, DtDen))
        i1 == FAdd(c.q[2], FScale(c.q[3], dtn, DtDen))
    IN [c EXCEPT !.q = <<q0, i1, c.q[3]>>]

\* LinearComponentState::tick; dt = dtn / DtDen
tick_component(c, dtn) ==
    LET i1 == FAdd(c.q[2], FScale(c.q[3], dtn, DtDen))
        q0 == FAdd(c.q[1], FScale(i1, dtn, DtDen))
    IN [c EXCEPT !.q = <<q0, i1, c.q[3]>>]

\* ------------------------------------------------------------------ MOSFET
\* The device parameters on the grid.  beta is value.beta / BetaDen per grid unit.
\* The body diode is a hard one: the thermal voltage
\* body_diode_ideality_facotor * temperature / ELEMENTARY_CHARGE_OVER_BOLTZMANN_CONSTANT
\* is 1 / ThermalInv of a grid unit, and value.body_diode_saturation_current is
\* given as the current at the clamped exponent, I_s * (exp(64) - 1).
BetaDen == 1024
ThermalInv == 64

\* the two arms exchanged: NChannel => -v, PChannel => v
polarity_of_voltage_exchanged(ty, v) == IF ty = "NChannel" THEN FNeg(v) ELSE v

\* the doping-type match on a voltage: PChannel => -v, NChannel => v
polarity_of_voltage(ty, v) == IF ty = "PChannel" THEN FNeg(v) ELSE v

\* the doping-type match on I_ds: PChannel => i_ds, NChannel => -i_ds
polarity_of_current(ty, i_ds) == IF ty = "NChannel" THEN FNeg(i_ds) ELSE i_ds

Min(a, b) == IF a <= b THEN a ELSE b

\* floor of the square root of n >= 0, by bisection between lo and hi
RECURSIVE FloorSqrt(_, _, _)
FloorSqrt(n, lo, hi) ==
    IF lo >= hi THEN lo
    ELSE LET mid == (lo + hi + 1) \div 2
         IN IF mid * mid <= n THEN FloorSqrt(n, mid, hi) ELSE FloorSqrt(n, lo, mid - 1)

\* f64::sqrt of n >= 0 in squared grid units, rounded to the grid
sqrt(n) ==
    LET r == FloorSqrt(n, 0, 46340)
    IN IF n - r * r > r THEN r + 1 ELSE r

\* impart_voltage_to_nets, `-((-i_ds) / I_s + 1.0).ln() * (eta * T / Q_OVER_K)` for
\* i_ds < 0: with m = -i_ds >= 1 grid unit the logarithm is
\* 64 + ln(m / body_diode_saturation_current) up to exp(-64), and the thermal voltage
\* is 1 / ThermalInv, so the product is within 1/2 of one grid unit for every m the
\* grid can hold
body_diode_voltage(value, i_ds) == -1

\* purturb_from_nets, `-I_s * ((-v_ds * Q_OVER_K / (eta * T)).min(64.0).exp() - 1.0)`
\* for v_ds <= 0: the exponent is 0 at v_ds = 0 and clamped at 64 from one grid unit on
body_diode_current(value, v_ds) ==
    LET x == Min(-v_ds * ThermalInv, 64)
    IN IF x = 0 THEN 0 ELSE -value.body_diode_saturation_current

\* impart_voltage_to_nets, the `let v_ds = if i_ds < 0.0 { .. } else { .. }`:
\* the projected V_ds, or no vote (the two `return`s)
projected_v_ds(value, i_ds, v_gs) ==
    IF i_ds < 0
    THEN [votes |-> TRUE, v_ds |-> body_diode_voltage(value, i_ds)]
    ELSE LET v_ctrl == v_gs - value.threshold_voltage
             squared == v_ctrl * v_ctrl
             two_i_over_beta == (2 * i_ds * BetaDen) \div value.beta
         IN IF v_ctrl > 0
            THEN IF squared - two_i_over_beta > squared \div 100000
                 THEN [votes |-> TRUE, v_ds |-> v_ctrl - sqrt(squared - two_i_over_beta)]
                 ELSE [votes |-> FALSE, v_ds |-> 0]
            ELSE [votes |-> FALSE, v_ds |-> 0]

\* MOSFETComponentState::impart_voltage_to_nets; step = s / StepDen
mosfet_impart_voltage_to_nets(c, ns, s) ==
    LET i_ds == polarity_of_current(c.value.ty, c.i[1])
        p == projected_v_ds(c.value, i_ds, c.v_gs_positive)
        v_ds == polarity_of_voltage(c.value.ty, p.v_ds)
        n_source == c.connected_nets_i[1]
        n_drain == c.connected_nets_i[3]
        v_ds_prev == FSub(At(ns, n_drain).voltage, At(ns, n_source).voltage)
        v_diff == FScale(FScale(FSub(v_ds, v_ds_prev), 1, 2), s, StepDen)
        ns0 == cast_vote(ns, n_source, FSub(At(ns, n_source).voltage, v_diff))
    IN IF ~p.votes THEN ns
       ELSE cast_vote(ns0, n_drain, FAdd(At(ns0, n_drain).voltage, v_diff))

\* MOSFETComponentState::impart_currents_to_nets
mosfet_impart_currents_to_nets(c, ns) ==
    LET n_source == c.connected_nets_i[1]
        n_drain == c.connected_nets_i[3]
        a0 == add_current(ns, n_source, 0, FNeg(c.i[1]))
        a1 == add_current(a0, n_drain, 0, c.i[1])
        b0 == add_current(a1, n_source, 1, FNeg(c.i[2]))
    IN add_current(b0, n_drain, 1, c.i[2])

\* purturb_from_nets, the `let i_ds = if v_ds > 0.0 { .. } else { .. }`: the
\* region the net voltages select and the current of that region
channel_current(value, v_gs, v_ds) ==
    LET v_ctrl == v_gs - value.threshold_voltage
    IN IF v_ds > 0
       THEN IF v_ctrl > 0
            THEN IF v_ds < v_ctrl
                 THEN [region |-> "triode",
                       i_ds |-> RoundDiv(value.beta * (2 * v_ctrl * v_ds - v_ds * v_ds),
                                         2 * BetaDen)]
                 ELSE [region |-> "saturation",
                       i_ds |-> RoundDiv(value.beta * v_ctrl * v_ctrl, 2 * BetaDen)]
            ELSE [region |-> "cutoff", i_ds |-> 0]
       ELSE [region |-> "diode", i_ds |-> body_diode_current(value, v_ds)]

\* i_target[k] of MOSFETComponentState::purturb_from_nets
mosfet_i_target(c, ns, k) ==
    FAdd(c.i[k + 1],
         FScale(FSub(At(ns, c.connected_nets_i[1]).current[k + 1],
                     At(ns, c.connected_nets_i[3]).current[k + 1]), 1, 2))

\* 0.5.lerp(a, b) = a * (1 - 0.5) + b * 0.5: the halves are exact in f64, the sum
\* is rounded once
lerp_half(a, b) == FScale(FAdd(a, b), 1, 2)

\* MOSFETComponentState::purturb_from_nets
mosfet_purturb_from_nets(c, ns) ==
    LET ty == c.value.ty
        v_source == At(ns, c.connected_nets_i[1]).voltage
        v_gs == polarity_of_voltage(ty, FSub(At(ns, c.connected_nets_i[2]).voltage, v_source))
        v_ds == polarity_of_voltage(ty, FSub(At(ns, c.connected_nets_i[3]).voltage, v_source))
        ch == channel_current(c.value, v_gs, v_ds)
        i_ds == polarity_of_current(ty, ch.i_ds)
        i_next == <<lerp_half(i_ds, mosfet_i_target(c, ns, 0)), mosfet_i_target(c, ns, 1)>>
    IN IF ch.region = "cutoff"
       THEN [component |-> [c EXCEPT !.i = <<0, 0>>],
             ok |-> converged(c.i[1], 0) /\ converged(c.i[2], 0)]
       ELSE [component |-> [c EXCEPT !.i = i_next, !.v_gs_positive = v_gs],
             ok |-> /\ converged(c.i[1], i_next[1])
                    /\ converged(c.i[2], i_next[2])
                    /\ converged(c.v_gs_positive, v_gs)]

\* MOSFETComponentState::tick: `self.i[1] += self.i[2] * dt` indexes entry 2 of the
\* two-entry array, which aborts
mosfet_tick(c, dtn) ==
    IF 2 < Len(c.i)
    THEN [component |-> [c EXCEPT !.i[2] = FAdd(@, FScale(c.i[3], dtn, DtDen))],
          panic |-> FALSE]
    ELSE [component |-> c, panic |-> TRUE]

\* ------------------------------------------------------- dispatch by family
\* ComponentStateEnum as_ref / as_mut: the operation of the component's own family
impart_voltage(c, ns, s) ==
    IF c.family = "MOSFET" THEN mosfet_impart_voltage_to_nets(c, ns, s)
    ELSE impart_voltage_to_nets(c, ns, s)

impart_currents(c, ns) ==
    IF c.family = "MOSFET" THEN mosfet_impart_currents_to_nets(c, ns)
    ELSE impart_currents_to_nets(c, ns)

purturb(c, ns) ==
    IF c.family = "MOSFET" THEN mosfet_purturb_from_nets(c, ns)
    ELSE purturb_from_nets(c, ns)

tick_of(c, dtn) ==
    IF c.family = "MOSFET" THEN mosfet_tick(c, dtn)
    ELSE [component |-> tick_component(c, dtn), panic |-> FALSE]

\* CircuitState::tick, `for component in &mut self.components { .tick(dt) }`: the
\* components tick in index order up to the first that aborts
RECURSIVE tick_all(_, _, _)
tick_all(cs, dtn, k) ==
    IF k >= Len(cs) THEN [components |-> cs, panic |-> FALSE]
    ELSE LET r == tick_of(At(cs, k), dtn)
         IN IF r.panic THEN [components |-> cs, panic |-> TRUE]
            ELSE tick_all([cs EXCEPT ![k + 1] = r.component], dtn, k + 1)

\* ------------------------------------------------------------------ solver
\* solve_state: ((i * 1349) as f).sin() * 0.5 + 0.5, in units of 1 / StepDen
StepTable ==
  <<
    128, 6, 203, 203, 6, 128, 250, 53, 53, 250, 128, 6, 203, 203, 6, 128, 250, 53, 53, 250,
    128, 6, 203, 204, 6, 128, 250, 53, 52, 250, 128, 6, 203, 204, 6, 127, 250, 53, 52, 250,
    129, 6, 203, 204, 6, 127, 250, 53, 52, 250, 129, 6, 203, 204, 7, 127, 250, 53, 52, 249,
    129, 6, 202, 204, 7, 127, 250, 54, 52, 249, 129, 6, 202, 204, 7, 127, 250, 54, 52, 249,
    129, 6, 202, 204, 7, 127, 250, 54, 52, 249, 129, 6, 202, 204, 7, 127, 250, 54, 52, 249,
    129, 6, 202, 204, 7, 126, 250, 54, 51, 249, 130, 6, 202, 205, 7, 126, 250, 54, 51, 249,
    130, 6, 202, 205, 7, 126, 250, 54, 51, 249, 130, 6, 202, 205, 7, 126, 250, 54, 51, 249,
    130, 6, 202, 205, 7, 126, 250, 55, 51, 249, 130, 6, 201, 205, 7, 126, 250, 55, 51, 249,
    130, 6, 201, 205, 7, 126, 250, 55, 51, 249, 130, 6, 201, 205, 7, 125, 251, 55, 51, 249,
    131, 5, 201, 205, 7, 125, 251, 55, 51, 249, 131, 5, 201, 206, 7, 125, 251, 55, 50, 249,
    131, 5, 201, 206, 7, 125, 251, 55, 50, 249, 131, 5, 201, 206, 7, 125, 251, 55, 50, 249,
    131, 5, 201, 206, 7, 125, 251, 55, 50, 249, 131, 5, 200, 206, 7, 125, 251, 56, 50, 249,
    132, 5, 200, 206, 7, 124, 251, 56, 50, 249, 132, 5, 200, 206, 7, 124, 251, 56, 50, 249,
    132, 5, 200, 206, 8, 124, 251, 56, 50, 248, 132, 5, 200, 206, 8, 124, 251, 56, 50, 248,
    132, 5, 200, 207, 8, 124, 251, 56, 49, 248, 132, 5, 200, 207, 8, 124, 251, 56, 49, 248,
    132, 5, 200, 207, 8, 124, 251, 56, 49, 248, 133, 5, 199, 207, 8, 123, 251, 57, 49, 248,
    133, 5, 199, 207, 8, 123, 251, 57, 49, 248, 133, 5, 199, 207, 8, 123, 251, 57, 49, 248,
    133, 5, 199, 207, 8, 123, 251, 57, 49, 248, 133, 5, 199, 207, 8, 123, 251, 57, 49, 248,
    133, 5, 199, 207, 8, 123, 251, 57, 48, 248, 133, 5, 199, 208, 8, 123, 251, 57, 48, 248,
    134, 5, 199, 208, 8, 122, 251, 57, 48, 248, 134, 5, 199, 208, 8, 122, 251, 58, 48, 248,
    134, 5, 198, 208, 8, 122, 251, 58, 48, 248, 134, 5, 198, 208, 8, 122, 251, 58, 48, 248,
    134, 4, 198, 208, 8, 122, 252, 58, 48, 248, 134, 4, 198, 208, 8, 122, 252, 58, 48, 248,
    134, 4, 198, 208, 8, 121, 252, 58, 48, 248, 135, 4, 198, 209, 8, 121, 252, 58, 47, 247,
    135, 4, 198, 209, 9, 121, 252, 58, 47, 247, 135, 4, 198, 209, 9, 121, 252, 59, 47, 247,
    135, 4, 197, 209, 9, 121, 252, 59, 47, 247, 135, 4, 197, 209, 9, 121, 252, 59, 47, 247,
    135, 4, 197, 209, 9, 121, 252, 59, 47, 247, 135, 4, 197, 209, 9, 120, 252, 59, 47, 247,
    136, 4, 197, 209, 9, 120, 252, 59, 47, 247, 136, 4, 197, 209, 9, 120, 252, 59, 47, 247,
    136, 4, 197, 210, 9, 120, 252, 59, 46, 247, 136, 4, 197, 210, 9, 120, 252, 60, 46, 247,
    136, 4, 196, 210, 9, 120, 252, 60, 46, 247, 136, 4, 196, 210, 9, 120, 252, 60, 46, 247,
    136, 4, 196, 210, 9, 119, 252, 60, 46, 247, 137, 4, 196, 210, 9, 119, 252, 60, 46, 247,
    137, 4, 196, 210, 9, 119, 252, 60, 46, 247, 137, 4, 196, 210, 9, 119, 252, 60, 46, 247,
    137, 4, 196, 210, 9, 119, 252, 60, 46, 247, 137, 4, 196, 211, 9, 119, 252, 61, 45, 247,
    137, 4, 195, 211, 10, 119, 252, 61, 45, 246, 138, 4, 195, 211, 10, 118, 252, 61, 45, 246,
    138, 4, 195, 211, 10, 118, 252, 61, 45, 246, 138, 4, 195, 211, 10, 118, 252, 61, 45, 246,
    138, 4, 195, 211, 10, 118, 252, 61, 45, 246, 138, 4, 195, 211, 10, 118, 252, 61, 45, 246,
    138, 3, 195, 211, 10, 118, 253, 61, 45, 246, 138, 3, 195, 211, 10, 118, 253, 62, 45, 246,
    139, 3, 194, 212, 10, 117, 253, 62, 44, 246, 139, 3, 194, 212, 10, 117, 253, 62, 44, 246,
    139, 3, 194, 212, 10, 117, 253, 62, 44, 246, 139, 3, 194, 212, 10, 117, 253, 62, 44, 246,
    139, 3, 194, 212, 10, 117, 253, 62, 44, 246, 139, 3, 194, 212, 10, 117, 253, 62, 44, 246,
    139, 3, 194, 212, 10, 117, 253, 62, 44, 246, 140, 3, 194, 212, 10, 116, 253, 63, 44, 246,
    140, 3, 193, 212, 10, 116, 253, 63, 44, 246, 140, 3, 193, 213, 10, 116, 253, 63, 43, 245,
    140, 3, 193, 213, 11, 116, 253, 63, 43, 245, 140, 3, 193, 213, 11, 116, 253, 63, 43, 245,
    140, 3, 193, 213, 11, 116, 253, 63, 43, 245, 140, 3, 193, 213, 11, 115, 253, 63, 43, 245,
    141, 3, 193, 213, 11, 115, 253, 63, 43, 245, 141, 3, 193, 213, 11, 115, 253, 64, 43, 245,
    141, 3, 192, 213, 11, 115, 253, 64, 43, 245, 141, 3, 192, 213, 11, 115, 253, 64, 43, 245,
    141, 3, 192, 214, 11, 115, 253, 64, 42, 245, 141, 3, 192, 214, 11, 115, 253, 64, 42, 245,
    141, 3, 192, 214, 11, 114, 253, 64, 42, 245, 142, 3, 192, 214, 11, 114, 253, 64, 42, 245,
    142, 3, 192, 214, 11, 114, 253, 64, 42, 245, 142, 3, 192, 214, 11, 114, 253, 65, 42, 245,
    142, 3, 191, 214, 11, 114, 253, 65, 42, 245, 142, 3, 191, 214, 11, 114, 253, 65, 42, 245,
    142, 3, 191, 214, 11, 114, 253, 65, 42, 244, 142, 3, 191, 215, 12, 113, 253, 65, 41, 244
  >>

step_of(round_i) == StepTable[round_i + 1]

RECURSIVE impart_all_voltages(_, _, _, _)
impart_all_voltages(cs, ns, s, k) ==
    IF k >= Len(cs) THEN ns
    ELSE impart_all_voltages(cs, impart_voltage(At(cs, k), ns, s), s, k + 1)

\* the nets are applied only up to the first that reports not converged
correct_voltages_stops_early(cs, ns, s) ==
    LET voted == impart_all_voltages(cs, ns, s, 0)
        applied == [n \in 1 .. Len(ns) |-> apply_accumulated_voltage(voted[n])]
        reached(n) == \A m \in 1 .. (n - 1) : applied[m].ok
    IN [nets |-> [n \in 1 .. Len(ns) |-> IF reached(n) THEN applied[n].net ELSE voted[n]],
        ok |-> \A n \in 1 .. Len(ns) : applied[n].ok]

\* CircuitState::correct_voltages
correct_voltages(cs, ns, s) ==
    LET voted == impart_all_voltages(cs, ns, s, 0)
        applied == [n \in 1 .. Len(ns) |-> apply_accumulated_voltage(voted[n])]
    IN [nets |-> [n \in 1 .. Len(ns) |-> applied[n].net],
        ok |-> \A n \in 1 .. Len(ns) : applied[n].ok]

\* solve_state, the micro-loop `for _ in 0..10`: pass k of the round, flag the local
\* `converged` so far
RECURSIVE voltage_passes(_, _, _, _, _, _)
voltage_passes(cs, ns, s, k, flag, first) ==
    IF k >= MAX_INNER
    THEN [nets |-> ns, conv |-> flag, passes |-> k, first_ok |-> first, last_ok |-> FALSE]
    ELSE LET r == correct_voltages(cs, ns, s)
         IN IF ~r.ok
            THEN voltage_passes(cs, r.nets, s, k + 1, FALSE, IF k = 0 THEN FALSE ELSE first)
            ELSE [nets |-> r.nets, conv |-> flag, passes |-> k + 1,
                  first_ok |-> IF k = 0 THEN TRUE ELSE first, last_ok |-> TRUE]

RECURSIVE impart_all_currents(_, _, _)
impart_all_currents(cs, ns, k) ==
    IF k >= Len(cs) THEN ns
    ELSE impart_all_currents(cs, impart_currents(At(cs, k), ns), k + 1)

\* CircuitState::correct_charge_states
correct_charge_states(cs, ns) ==
    LET zeroed == [n \in 1 .. Len(ns) |-> [ns[n] EXCEPT !.current = <<0, 0>>]]
        imparted == impart_all_currents(cs, zeroed, 0)
        normal == [n \in 1 .. Len(ns) |-> normalize_current(imparted[n])]
        moved == [c \in 1 .. Len(cs) |-> purturb(cs[c], normal)]
    IN [components |-> [c \in 1 .. Len(cs) |-> moved[c].component],
        nets |-> normal,
        ok |-> (\A c \in 1 .. Len(cs) : moved[c].ok)
               /\ (\A n \in 1 .. Len(ns) : current_converged(normal[n]))]


\* the verdict is looked at only when the rounds are used up
round_outcome_runs_on(flag, round_i) ==
    IF round_i + 1 < MAX_OUTER THEN "next"
    ELSE IF flag THEN "true"
    ELSE "false"

\* solve_state, the end of an outer round: `if converged { return true }`, else the
\* next round or, the range 0..1000 exhausted, `false`
round_outcome(flag, round_i) ==
    IF flag THEN "true"
    ELSE IF round_i + 1 < MAX_OUTER THEN "next"
    ELSE "false"

\* ------------------------------------------------------------- input sets
Capacitive(c) == [family |-> "Linear", kind |-> "Capacitive", x |-> c]
Resistive(r) == [family |-> "Linear", kind |-> "Resistive", x |-> r]
Inductive(l) == [family |-> "Linear", kind |-> "Inductive", x |-> l]
Source(v) == [family |-> "Linear", kind |-> "Source", x |-> v]
Switch(closed) == [family |-> "Linear", kind |-> "Switch", closed |-> closed]
MOSFET(ty) ==
    [family |-> "MOSFET", ty |-> ty, beta |-> 1, threshold_voltage |-> 256,
     body_diode_saturation_current |-> 4096, body_diode_ideality_facotor |-> 1]

LinearValues ==
    {Capacitive(1), Resistive(1), Inductive(1), Source(1024), Switch(TRUE), Switch(FALSE)}
\* a zero-ohm resistor divides by zero in purturb_from_nets
DegenerateValues == {Resistive(0), Source(1024)}
\* one value of each kind of terminal count, for construction alone
BuildValues == {Source(1024), Resistive(1), MOSFET("NChannel")}

\* net ids a caller may pass: the valid ones and one past the end
NetIdLists ==
    UNION {[1 .. n -> 0 .. MaxNets] : n \in 1 .. 3}

PreloadVals == {1024}
DtNums == {1}

\* ----------------------------------------------------------------- actions
\* CircuitState::create_net
CreateNet ==
    /\ pc = "idle" /\ ncalls = 0
    /\ Len(nets) < MaxNets
    /\ nets' = create_net(nets).nets
    /\ call' = [op |-> "create_net", ret |-> create_net(nets).ret]
    /\ made' = [made EXCEPT !.nets = @ + 1]
    /\ UNCHANGED <<components, pc, i, conv, round, ncalls, nwrites>>

\* CircuitState::create_component(value, ids)
CreateComponent(value, ids) ==
    /\ pc = "idle" /\ ncalls = 0
    /\ LET r == create_component(components, nets, value, ids)
       IN /\ components' = r.components
          /\ nets' = r.nets
          /\ pc' = IF r.panic THEN "panicked" ELSE "idle"
          /\ call' = [op |-> "create_component", ret |-> r.ret,
                      bad_id |-> \E k \in 1 .. Len(ids) : ids[k] >= Len(nets),
                      bad_len |-> Len(ids) # (IF value.family = "MOSFET" THEN 3 ELSE 2)]
          /\ made' = IF r.panic THEN made ELSE [made EXCEPT !.components = @ + 1]
    /\ UNCHANGED <<i, conv, round, ncalls, nwrites>>

\* an external write `component.q[k] = val` between construction and the first call
\* (make_rc_test: `c.q[0] = -1.0`)
Preload(c, k, val) ==
    /\ pc = "idle" /\ ncalls = 0 /\ nwrites < MaxWrites
    /\ c \in 1 .. Len(components)
    /\ components[c].family = "Linear"
    /\ components' = [components EXCEPT ![c].q[k + 1] = val]
    /\ nwrites' = nwrites + 1
    /\ UNCHANGED <<nets, pc, call, i, conv, round, ncalls, made>>

\* the driver stops calling after a `false` verdict (make_rc_test: `break`)
MayCall ==
    /\ pc = "idle" /\ ncalls < MaxCalls
    /\ (call.op \in {"solve_state", "tick"} => call.ret)

\* CircuitState::solve_state is entered
SolveState ==
    /\ MayCall
    /\ pc' = "voltages"
    /\ call' = [op |-> "solve_state", ret |-> FALSE]
    /\ i' = 0
    /\ conv' = TRUE
    /\ round' = NoRound
    /\ ncalls' = ncalls + 1
    /\ UNCHANGED <<components, nets, nwrites, made>>

\* CircuitState::tick(dt), dt = dtn / DtDen: every component ticks, then solve_state
\* is entered
Tick(dtn) ==
    /\ MayCall
    /\ components' = tick_all(components, dtn, 0).components
    /\ pc' = IF tick_all(components, dtn, 0).panic THEN "panicked" ELSE "voltages"
    /\ call' = [op |-> "tick", ret |-> FALSE, dt |-> dtn]
    /\ i' = 0
    /\ conv' = TRUE
    /\ round' = NoRound
    /\ ncalls' = ncalls + 1
    /\ UNCHANGED <<nets, nwrites, made>>

\* solve_state: `let mut converged = true;` and the micro-loop of round i
VoltagePasses ==
    /\ pc = "voltages"
    /\ LET r == voltage_passes(components, nets, step_of(i), 0, TRUE, TRUE)
       IN /\ nets' = r.nets
          /\ conv' = r.conv
          /\ round' = [round EXCEPT !.passes = r.passes, !.first_ok = r.first_ok,
                                    !.last_ok = r.last_ok]
    /\ pc' = "charges"
    /\ UNCHANGED <<components, call, i, ncalls, nwrites, made>>

\* solve_state: `if !self.correct_charge_states() { converged = false }` and the end
\* of round i
ChargeCorrection ==
    /\ pc = "charges"
    /\ LET r == correct_charge_states(components, nets)
           flag == conv /\ r.ok
           out == round_outcome(flag, i)
       IN /\ components' = r.components
          /\ nets' = r.nets
          /\ conv' = flag
          /\ round' = [round EXCEPT !.charge_ok = r.ok, !.flag = flag,
                                    !.charges = @ + 1, !.rounds = @ + 1,
                                    !.earlier_ok = @ \/ (round.rounds > 0 /\ round.flag)]
          /\ IF out = "next"
             THEN /\ i' = i + 1
                  /\ pc' = "voltages"
                  /\ call' = call
             ELSE /\ i' = i
                  /\ pc' = "idle"
                  /\ call' = [call EXCEPT !.ret = (out = "true")]
    /\ UNCHANGED <<ncalls, nwrites, made>>

Next ==
    \/ CreateNet
    \/ \E value \in LinearValues, ids \in NetIdLists :
          Len(components) < MaxComps /\ CreateComponent(value, ids)
    \/ \E c \in 1 .. MaxComps, k \in 0 .. 2, val \in PreloadVals : Preload(c, k, val)
    \/ SolveState
    \/ \E dtn \in DtNums : Tick(dtn)
    \/ VoltagePasses
    \/ ChargeCorrection

Spec == Init /\ [][Next]_vars

\* the series loop of spec scenario 4 / 5 as create_net and create_component leave
\* it: a source, a resistor and a switch around three nets, each in either orientation
LoopCircuit(s, r, w, closed) ==
    LET n3 == <<NetNewEmpty, NetNewEmpty, NetNewEmpty>>
        a == create_component(<< >>, n3, Source(1024), s)
        b == create_component(a.components, a.nets, Resistive(1), r)
    IN create_component(b.components, b.nets, Switch(closed), w)

InitLoop ==
    \E s \in {<<0, 1>>, <<1, 0>>}, r \in {<<1, 2>>, <<2, 1>>}, w \in {<<2, 0>>, <<0, 2>>},
       closed \in BOOLEAN :
        /\ components = LoopCircuit(s, r, w, closed).components
        /\ nets = LoopCircuit(s, r, w, closed).nets
        /\ pc = "idle"
        /\ call = [op |-> "create_component", ret |-> 2, bad_id |-> FALSE, bad_len |-> FALSE]
        /\ i = 0
        /\ conv = TRUE
        /\ round = NoRound
        /\ ncalls = 0
        /\ nwrites = 0
        /\ made = [nets |-> 3, components |-> 3]

NextLoop ==
    \/ SolveState
    \/ \E dtn \in DtNums : Tick(dtn)
    \/ VoltagePasses
    \/ ChargeCorrection

SpecLoop == InitLoop /\ [][NextLoop]_vars

\* construction alone, with every device family
NextBuild ==
    \/ CreateNet
    \/ \E value \in BuildValues, ids \in NetIdLists :
          Len(components) < MaxComps /\ CreateComponent(value, ids)

SpecBuild == Init /\ [][NextBuild]_vars

\* circuits of a single component, a zero-ohm resistor among the values
NextDegenerate ==
    \/ CreateNet
    \/ \E value \in DegenerateValues, ids \in NetIdLists :
          components = << >> /\ CreateComponent(value, ids)
    \/ SolveState
    \/ \E dtn \in DtNums : Tick(dtn)
    \/ VoltagePasses
    \/ ChargeCorrection

SpecDegenerate == Init /\ [][NextDegenerate]_vars

\* a MOSFET driven by two sources, as create_net and create_component leave it:
\* nets 0, 1, 2 are its source, gate and drain, one source sets the gate-source
\* voltage and one the drain-source voltage
GateVolts == {-1024, 1024}
DrainVolts == {-1024, -512, 512, 1024}

MosfetCircuit(ty, vg, vd) ==
    LET n3 == <<NetNewEmpty, NetNewEmpty, NetNewEmpty>>
        a == create_component(<< >>, n3, Source(vg), <<0, 1>>)
        b == create_component(a.components, a.nets, Source(vd), <<0, 2>>)
    IN create_component(b.components, b.nets, MOSFET(ty), <<0, 1, 2>>)

InitMosfet ==
    \E ty \in {"NChannel", "PChannel"}, vg \in GateVolts, vd \in DrainVolts :
        /\ components = MosfetCircuit(ty, vg, vd).components
        /\ nets = MosfetCircuit(ty, vg, vd).nets
        /\ pc = "idle"
        /\ call = [op |-> "create_component", ret |-> 2, bad_id |-> FALSE, bad_len |-> FALSE]
        /\ i = 0
        /\ conv = TRUE
        /\ round = NoRound
        /\ ncalls = 0
        /\ nwrites = 0
        /\ made = [nets |-> 3, components |-> 3]

NextMosfet ==
    \/ SolveState
    \/ \E dtn \in DtNums : Tick(dtn)
    \/ VoltagePasses
    \/ ChargeCorrection

SpecMosfet == InitMosfet /\ [][NextMosfet]_vars


\* ------------------------------------------------------------------ claims
\* a solve_state or tick call has returned
Returned == pc = "idle" /\ call.op \in {"solve_state", "tick"}
\* an outer round of the present call has just ended
RoundEnded == round.rounds > 0 /\ pc \in {"voltages", "idle"}

\* C1: an outer round counts as converged if and only if the final pass of its
\* voltage micro-loop converged and its charge-state correction converged.
C1_RoundConvergedIffFinalPass ==
    RoundEnded => (round.flag <=> (round.last_ok /\ round.charge_ok))

\* signed sum of the branch currents I at net n (0-based): -I at terminal 0, +I at
\* terminal 1
RECURSIVE signed_current_sum(_, _)
signed_current_sum(refs, k) ==
    IF k > Len(refs) THEN 0
    ELSE LET c == components[refs[k][1] + 1]
             I == c.q[2]
         IN FAdd(IF refs[k][2] = 0 THEN FNeg(I) ELSE I, signed_current_sum(refs, k + 1))

\* C3: after solve_state returns true, at every net the signed sum of the branch
\* currents of the incident components has magnitude at most 1e-12.
C3_KirchhoffCurrentLaw ==
    (Returned /\ call.ret) =>
        \A n \in 1 .. Len(nets) :
            FAbsLe(signed_current_sum(nets[n].components, 1), EPSILON)

\* C4: after solve_state returns true, every component that casts a voltage vote
\* has its constitutive target voltage within 1e-12 of the net voltage across its
\* terminals.
C4_DeviceConsistency ==
    (Returned /\ call.ret) =>
        \A c \in 1 .. Len(components) :
            ~declines(components[c]) =>
                FAbsLe(FSub(v_target_of(components[c]), v_across(components[c], nets)),
                       EPSILON)

\* the circuit is one ideal voltage source of non-zero V with both terminals on the
\* same net
ShortedSourceOnly ==
    /\ Len(components) = 1
    /\ components[1].value.kind = "Source"
    /\ components[1].value.x # 0
    /\ components[1].connected_nets_i[1] = components[1].connected_nets_i[2]

\* C5: for a circuit that is only a short-circuited ideal voltage source,
\* solve_state returns false.
C5_ShortedSourceFails ==
    (Returned /\ call.op = "solve_state" /\ ShortedSourceOnly) => ~call.ret


\* C2: solve_state terminates: rounds run in index order, each with at most 10
\* voltage passes and exactly one charge-state correction; it returns true at the
\* first converged round and false after exactly MAX_OUTER non-converged rounds.
C2_SolveTerminates ==
    /\ i < MAX_OUTER
    /\ round.passes <= MAX_INNER
    /\ ~round.earlier_ok
    /\ pc = "voltages" => (i = round.rounds /\ round.charges = round.rounds)
    /\ pc = "charges" =>
          (i = round.rounds /\ round.charges = round.rounds /\ round.passes >= 1)
    /\ Returned =>
          /\ round.rounds = i + 1
          /\ round.charges = round.rounds
          /\ call.ret => round.flag
          /\ ~call.ret => (~round.flag /\ round.rounds = MAX_OUTER)

\* solve_state returned false after the whole budget of rounds
C2_Witness == Returned /\ ~call.ret /\ round.rounds = MAX_OUTER /\ round.passes = MAX_INNER

\* C6: in the series loop of a source, a 1 ohm resistor and a closed switch, all
\* created with zero charge and current, the resistor's current after solve_state
\* has magnitude about V / R (within an eighth), where V is the source's voltage.
C6_ClosedSwitchCurrent ==
    (Returned /\ call.op = "solve_state" /\ components[3].value.closed
        /\ \A c \in 1 .. 3 : components[c].q[1] = 0) =>
        FAbsLe(FSub(Abs(components[2].q[2]), components[1].value.x),
               components[1].value.x \div 8)

\* C7: create_component aborts when a net id is not smaller than the number of nets
\* or the number of ids differs from the family's terminal count, and the abort
\* leaves the components and every net's incident list as they were.
C7_CreateComponentAborts ==
    [][(call'.op = "create_component" /\ (call'.bad_id \/ call'.bad_len)) =>
          (pc' = "panicked" /\ components' = components /\ nets' = nets)]_vars

\* a MOSFET given two valid net ids aborted, in a circuit that holds a component
C7_Witness ==
    /\ pc = "panicked" /\ call.op = "create_component"
    /\ call.bad_len /\ ~call.bad_id
    /\ Len(components) = 1 /\ Len(nets[1].components) > 0

\* how often pair occurs in the incident list refs
Occurrences(refs, pair) == Cardinality({k \in 1 .. Len(refs) : refs[k] = pair})

\* identifiers are positional and the back-references are exact and in creation order
DenseAndExact ==
    /\ made.nets = Len(nets)
    /\ made.components = Len(components)
    /\ call.op = "create_net" => call.ret = made.nets - 1
    /\ (call.op = "create_component" /\ pc = "idle") => call.ret = made.components - 1
    /\ \A n \in 1 .. Len(nets) :
          LET refs == nets[n].components
          IN /\ \A k \in 1 .. Len(refs) :
                   /\ refs[k][1] \in Idx(components)
                   /\ refs[k][2] \in Idx(components[refs[k][1] + 1].connected_nets_i)
                   /\ At(components[refs[k][1] + 1].connected_nets_i, refs[k][2]) = n - 1
             /\ \A c \in Idx(components) :
                   \A t \in Idx(At(components, c).connected_nets_i) :
                       Occurrences(refs, <<c, t>>) =
                           IF At(At(components, c).connected_nets_i, t) = n - 1 THEN 1 ELSE 0
             /\ \A k \in 1 .. Len(refs) - 1 : refs[k][1] <= refs[k + 1][1]

\* C8: after any sequence of create_net and successful create_component calls the
\* identifiers are dense positional indices, the sequences never shrink, and (c, t)
\* is in the incident list of net n exactly once iff terminal t of component c is
\* bound to n, each list in order of component creation.
C8_DenseIdsExactBackRefs ==
    [][/\ DenseAndExact'
       /\ Len(nets') >= Len(nets)
       /\ Len(components') >= Len(components)]_vars

\* a MOSFET with two terminals on one net, created after a linear component
C8_Witness ==
    /\ pc = "idle" /\ Len(components) = 2 /\ Len(nets) = 2
    /\ components[2].family = "MOSFET"
    /\ components[2].connected_nets_i = <<1, 0, 1>>
    /\ nets[2].components = <<<<0, 1>>, <<1, 0>>, <<1, 2>>>>

\* C9: tick(dt) integrates every component (I += dI/dt * dt, then Q += I * dt with
\* the updated I, dI/dt unchanged) before solve_state starts on the integrated
\* state, and returns that solve_state's verdict.
C9_TickIntegratesThenSolves ==
    [][/\ (pc = "idle" /\ pc' = "voltages" /\ call'.op = "tick") =>
             /\ nets' = nets
             /\ i' = 0
             /\ Len(components') = Len(components)
             /\ \A c \in 1 .. Len(components) :
                   LET q == components[c].q
                       p == components'[c].q
                   IN /\ p[3] = q[3]
                      /\ p[2] = FAdd(q[2], FScale(q[3], call'.dt, DtDen))
                      /\ p[1] = FAdd(q[1], FScale(p[2], call'.dt, DtDen))
       /\ (pc # "idle" /\ pc' = "idle" /\ call.op = "tick") =>
             (call'.op = "tick" /\ call'.ret = round'.flag /\ ncalls' = ncalls)]_vars

\* tick returned, and a charge shows that Q was advanced with the updated current
C9_Witness ==
    /\ Returned /\ call.op = "tick"
    /\ \E c \in 1 .. Len(components) :
          components[c].q[1] = FScale(FScale(1024, 1, DtDen), 1, DtDen)

\* C10: a charge-state correction sets a resistor's current I to -v_target / R, with
\* v_target the net voltage across its terminals.
C10_ResistorCurrentFollowsVoltage ==
    RoundEnded =>
        \A c \in 1 .. Len(components) :
            components[c].value.kind = "Resistive" =>
                components[c].q[2] =
                    FDiv(FNeg(v_across(components[c], nets)), components[c].value.x)


\* the step is the entry of a tick call
TickStep == pc = "idle" /\ call'.op = "tick" /\ ncalls' = ncalls + 1

\* C11: tick(dt) on a MOSFET completes without a fault, I_ds (entry 0 of the
\* two-entry current vector) becomes I_ds + (dI_ds/dt) * dt and dI_ds/dt (entry 1)
\* is unchanged.
C11_MosfetTickIntegrates ==
    [][TickStep =>
          /\ pc' # "panicked"
          /\ \A c \in 1 .. Len(components) :
                components[c].family = "MOSFET" =>
                    components'[c].i =
                        <<FAdd(components[c].i[1],
                               FScale(components[c].i[2], call'.dt, DtDen)),
                          components[c].i[2]>>]_vars


\* the gate-source voltage the nets hold for component c, doping polarity applied
gate_voltage_held(c) ==
    polarity_of_voltage(c.value.ty,
                        FSub(At(nets, c.connected_nets_i[2]).voltage,
                             At(nets, c.connected_nets_i[1]).voltage))

\* C12: after every purturb_from_nets call on a MOSFET, in every operating region
\* including cutoff, the cached V_gs_pos equals the polarity-corrected gate-source
\* voltage read from the nets in that call.
C12_CachedGateVoltageFresh ==
    RoundEnded =>
        \A c \in 1 .. Len(components) :
            components[c].family = "MOSFET" =>
                components[c].v_gs_positive = gate_voltage_held(components[c])


\* the contributions to entry e (0: I, 1: dI/dt) of a net's imbalance by the linear
\* components behind its back-references refs: their signed sum, and the number of
\* contributing terminals (an open switch contributes nothing)
RECURSIVE contribution_sum(_, _, _)
contribution_sum(refs, e, k) ==
    IF k > Len(refs) THEN [sum |-> 0, terminals |-> 0]
    ELSE LET c == components[refs[k][1] + 1]
             amount == IF refs[k][2] = 0 THEN FNeg(c.q[e + 2]) ELSE c.q[e + 2]
             rest == contribution_sum(refs, e, k + 1)
         IN IF c.value.kind = "Switch" /\ ~c.value.closed THEN rest
            ELSE [sum |-> FAdd(amount, rest.sum), terminals |-> rest.terminals + 1]

\* C13: each current contribution of a component terminal to a net increments the
\* net's current-source count by exactly one, so after normalize-current each
\* imbalance entry of a net is the signed sum of the contributions divided by the
\* number of contributing terminals.
C13_ImbalanceIsAverage ==
    [][pc = "charges" =>
          \A n \in 1 .. Len(nets), e \in 0 .. 1 :
              LET t == contribution_sum(nets[n].components, e, 1)
              IN nets'[n].current[e + 1] =
                     IF t.terminals = 0 THEN 0 ELSE FDiv(t.sum, t.terminals)]_vars


IsOpenSwitch(c) == c.family = "Linear" /\ c.value.kind = "Switch" /\ ~c.value.closed

\* the circuit without its open switches
WithoutOpenSwitches(cs) == SelectSeq(cs, LAMBDA c : ~IsOpenSwitch(c))

\* C14: an open switch declines both impart operations and carries no current: the
\* voltage passes and the charge-state correction leave every net as they would
\* were the open switches not there, and after every charge-state correction the I
\* and dI/dt of an open switch are both 0, whatever they were before.
C14_OpenSwitchDeclines ==
    [][/\ pc = "voltages" =>
            nets' = voltage_passes(WithoutOpenSwitches(components), nets,
                                   step_of(i), 0, TRUE, TRUE).nets
       /\ pc = "charges" =>
            /\ nets' = correct_charge_states(WithoutOpenSwitches(components), nets).nets
            /\ \A c \in 1 .. Len(components) :
                  IsOpenSwitch(components[c]) =>
                      /\ components'[c].q[2] = 0
                      /\ components'[c].q[3] = 0
                      /\ components'[c].q[1] = components[c].q[1]]_vars

\* a tick call returned on a circuit of a source and an open switch across nets at
\* different voltages; the switch had been given a dI/dt, which the tick turned
\* into a current and a charge: the charge is still there, I and dI/dt are 0
C14_Witness ==
    /\ Returned /\ call.op = "tick"
    /\ Len(components) = 2 /\ Len(nets) = 2
    /\ nets[1].voltage # nets[2].voltage
    /\ \E c \in 1 .. 2 :
          /\ IsOpenSwitch(components[c])
          /\ components[c].connected_nets_i[1] # components[c].connected_nets_i[2]
          /\ components[c].q = <<FScale(FScale(1024, 1, DtDen), 1, DtDen), 0, 0>>


\* no vote and no current contribution is pending on any net of ns
ScratchClean(ns) ==
    \A n \in 1 .. Len(ns) :
        /\ ns[n].voltage_accumulator = 0
        /\ ns[n].voltage_accumulator_sources = 0
        /\ ns[n].current_sources = 0

\* the nets after k voltage-correction passes at step s
RECURSIVE nets_after_passes(_, _, _, _)
nets_after_passes(cs, ns, s, k) ==
    IF k = 0 THEN ns
    ELSE correct_voltages(cs, nets_after_passes(cs, ns, s, k - 1), s).nets

\* no component votes on net n (1-based): all its terminals are those of open switches
NoVotes(n) ==
    \A r \in 1 .. Len(nets[n].components) :
        IsOpenSwitch(components[nets[n].components[r][1] + 1])

\* C15: net scratch state is clean between sub-phases: at the end of every
\* voltage-correction pass every net's voltage accumulator and vote count are 0 (also
\* after a pass that did not converge; a net with zero votes keeps its voltage), at
\* the end of every charge-state correction every net's current-source count is 0,
\* hence also whenever solve_state or tick returns.
C15_ScratchClean ==
    [][/\ ScratchClean(nets')
       /\ pc = "voltages" =>
            /\ \A k \in 1 .. round'.passes :
                  ScratchClean(nets_after_passes(components, nets, step_of(i), k))
            /\ nets' = nets_after_passes(components, nets, step_of(i), round'.passes)
            /\ \A n \in 1 .. Len(nets) : NoVotes(n) => nets'[n].voltage = nets[n].voltage]_vars

\* a round has ended whose micro-loop needed several passes, the first of them not
\* converged, with both nets moved off zero
C15_Witness ==
    /\ RoundEnded
    /\ round.passes >= 2 /\ ~round.first_ok
    /\ Len(nets) = 2
    /\ nets[1].voltage # 0 /\ nets[2].voltage # 0
    /\ ScratchClean(nets)


\* the step belongs to a solve_state call that was entered directly: its entry, a
\* micro-loop or a charge-state correction
SolveStep ==
    \/ pc = "idle" /\ call'.op = "solve_state" /\ ncalls' = ncalls + 1
    \/ pc \in {"voltages", "charges"}

\* C16: solve_state never changes the charge Q of any linear component nor the
\* current I of any inductor, nor any device parameter, offset_emf or net binding.
C16_SolveKeepsChargeAndInductorCurrent ==
    [][SolveStep =>
          /\ Len(components') = Len(components)
          /\ \A c \in 1 .. Len(components) :
              components[c].family = "Linear" =>
                  /\ components'[c].value = components[c].value
                  /\ components'[c].offset_emf = components[c].offset_emf
                  /\ components'[c].connected_nets_i = components[c].connected_nets_i
                  /\ components'[c].q[1] = components[c].q[1]
                  /\ components[c].value.kind = "Inductive" =>
                        components'[c].q[2] = components[c].q[2]]_vars

\* solve_state returned on a circuit with an inductor that was given a current: the
\* current is still the one given, while its dI/dt was moved by the solve
C16_Witness ==
    /\ Returned /\ call.op = "solve_state"
    /\ \E c \in 1 .. Len(components) :
          /\ components[c].value.kind = "Inductive"
          /\ components[c].q[2] = 1024
          /\ components[c].q[3] # 0


\* A polarity convention: voltages are negated for the doping type nv and used as
\* read for the other, I_ds is negated for NChannel.
\* x with the sign the convention gives a voltage of a device of type ty
ConventionVoltage(nv, ty, x) == IF ty = nv THEN FNeg(x) ELSE x
ConventionCurrent(ty, x) == IF ty = "NChannel" THEN FNeg(x) ELSE x

\* the vote of MOSFET c under the convention: I_ds is read with the convention's
\* sign, the projected V_ds is voted with the convention's sign between the drain
\* and source nets
ConventionVote(nv, c, ns, s) ==
    LET p == projected_v_ds(c.value, ConventionCurrent(c.value.ty, c.i[1]), c.v_gs_positive)
        v_ds == ConventionVoltage(nv, c.value.ty, p.v_ds)
        src == c.connected_nets_i[1]
        drn == c.connected_nets_i[3]
        held == FSub(At(ns, drn).voltage, At(ns, src).voltage)
        half == FScale(FScale(FSub(v_ds, held), 1, 2), s, StepDen)
        lowered == cast_vote(ns, src, FSub(At(ns, src).voltage, half))
    IN IF p.votes THEN cast_vote(lowered, drn, FAdd(At(lowered, drn).voltage, half))
       ELSE ns

RECURSIVE ConventionVotes(_, _, _, _)
ConventionVotes(nv, ns, s, k) ==
    IF k >= Len(components) THEN ns
    ELSE LET c == At(components, k)
         IN ConventionVotes(nv,
                            IF c.family = "MOSFET" THEN ConventionVote(nv, c, ns, s)
                            ELSE impart_voltage_to_nets(c, ns, s),
                            s, k + 1)

\* the nets after k voltage-correction passes with the MOSFETs voting by the convention
RECURSIVE ConventionPasses(_, _, _, _)
ConventionPasses(nv, ns, s, k) ==
    IF k = 0 THEN ns
    ELSE LET voted == ConventionVotes(nv, ns, s, 0)
             applied == [n \in 1 .. Len(ns) |-> apply_accumulated_voltage(voted[n]).net]
         IN ConventionPasses(nv, applied, s, k - 1)

\* purturb_from_nets of MOSFET c under the convention, on the step's charge-state
\* correction: the region is chosen from the net voltages with the convention's
\* sign, the region's I_ds is blended with the convention's sign, and outside
\* cutoff the gate-source voltage is cached with the convention's sign
ConventionPerturb(nv, c) ==
    LET before == components[c]
        ty == before.value.ty
        v_source == At(nets, before.connected_nets_i[1]).voltage
        v_gs == ConventionVoltage(nv, ty,
                    FSub(At(nets, before.connected_nets_i[2]).voltage, v_source))
        v_ds == ConventionVoltage(nv, ty,
                    FSub(At(nets, before.connected_nets_i[3]).voltage, v_source))
        ch == channel_current(before.value, v_gs, v_ds)
    IN IF ch.region = "cutoff" THEN components'[c].i = <<0, 0>>
       ELSE /\ components'[c].i[1] =
                   lerp_half(ConventionCurrent(ty, ch.i_ds), mosfet_i_target(before, nets', 0))
            /\ components'[c].v_gs_positive = v_gs

ConventionStep(nv) ==
    /\ pc = "voltages" => nets' = ConventionPasses(nv, nets, step_of(i), round'.passes)
    /\ pc = "charges" =>
          \A c \in 1 .. Len(components) :
              components[c].family = "MOSFET" => ConventionPerturb(nv, c)

\* C17: MOSFET polarity convention: the gate-source and drain-source voltages read
\* in purturb_from_nets are negated for an N-channel device and used as read for a
\* P-channel device before the region is chosen, the resulting I_ds is negated for
\* N-channel before it is blended; impart_voltage_to_nets applies the same
\* convention to I_ds and the voted V_ds.
C17_PolarityAsClaimed == [][ConventionStep("NChannel")]_vars

\* C17 as amended: the voltages are negated for a P-channel device and used as read
\* for an N-channel device; I_ds is negated for N-channel; impart_voltage_to_nets
\* negates the I_ds it reads for N-channel and the V_ds it votes for P-channel.
C17_PolarityAmended == [][ConventionStep("PChannel")]_vars

\* a round ended on a P-channel device whose gate and drain are both below its
\* source: it conducts and has cached the negated gate-source voltage
C17_Witness ==
    /\ RoundEnded
    /\ \E c \in 1 .. Len(components) :
          /\ components[c].family = "MOSFET"
          /\ components[c].value.ty = "PChannel"
          /\ At(nets, components[c].connected_nets_i[2]).voltage
                < At(nets, components[c].connected_nets_i[1]).voltage
          /\ At(nets, components[c].connected_nets_i[3]).voltage
                < At(nets, components[c].connected_nets_i[1]).voltage
          /\ components[c].v_gs_positive > components[c].value.threshold_voltage
          /\ components[c].i[1] > 0

=============================================================================
